---- MODULE Spec2Model ----
(***************************************************************************)
(* go-list-func: the listing of the exported functions and methods of the  *)
(* loaded packages (src/main.go).                                          *)
(*                                                                         *)
(* A Go string is a sequence of runes, each rune a one-character string.   *)
(* A call that may panic returns a record: err = "none" and the value, or  *)
(* err = the panic and no value.  Nothing in main.go recovers a panic, so  *)
(* a panic in any callee ends the process.                                 *)
(***************************************************************************)
EXTENDS Naturals, Sequences, FiniteSets

VARIABLES verbose, prog, fi, di, out, pc, fatal, arg, ret

vars == <<verbose, prog, fi, di, out, pc, fatal, arg, ret>>

(***************************************************************************)
(* Bounds of the model.                                                    *)
(***************************************************************************)
\* nesting depth of the type expressions handed to formatType
MaxDepth == 3
\* names sharing one type in a field
MaxNames == 2
\* fields of a field list
MaxFields == 2
\* declarations of a program, over all its files
MaxDecls == 3
\* files of a program
MaxFiles == 2

(***************************************************************************)
(* Strings.                                                                *)
(***************************************************************************)
Upper == {"A", "B", "C", "D", "E", "F", "G", "H", "I", "J", "K", "L", "M",
          "N", "O", "P", "Q", "R", "S", "T", "U", "V", "W", "X", "Y", "Z"}

sX == <<"X">>
sInt == <<"i", "n", "t">>
sString == <<"s", "t", "r", "i", "n", "g">>
sError == <<"e", "r", "r", "o", "r">>
sByte == <<"b", "y", "t", "e">>
sUnicode == <<"u", "n", "i", "c", "o", "d", "e">>
sSpecialCase == <<"S", "p", "e", "c", "i", "a", "l", "C", "a", "s", "e">>
sReader == <<"R", "e", "a", "d", "e", "r">>
sMyType == <<"M", "y", "T", "y", "p", "e">>
smyType == <<"m", "y", "T", "y", "p", "e">>
sFoo == <<"F", "o", "o">>
sfoo == <<"f", "o", "o">>
sJoin == <<"J", "o", "i", "n">>
ssplit == <<"s", "p", "l", "i", "t">>
sRead == <<"R", "e", "a", "d">>
sSend == <<"S", "e", "n", "d">>
sLen == <<"L", "e", "n">>
sSep == <<"s", "e", "p">>
sErr == <<"e", "r", "r">>
sLit3 == <<"3">>
ParamNames == <<<<"a">>, <<"b">>, <<"c">>, <<"d">>>>

(***************************************************************************)
(* The syntax tree (go/ast), as far as main.go reads it.                   *)
(***************************************************************************)
NilExpr == [kind |-> "nil"]
Ident(name) == [kind |-> "Ident", Name |-> name]
SelectorExpr(x, sel) == [kind |-> "SelectorExpr", X |-> x, Sel |-> sel]
StarExpr(x) == [kind |-> "StarExpr", X |-> x]
ArrayType(len, elt) == [kind |-> "ArrayType", Len |-> len, Elt |-> elt]
Ellipsis(elt) == [kind |-> "Ellipsis", Elt |-> elt]
FuncType(params, results) == [kind |-> "FuncType", Params |-> params, Results |-> results]
MapType(key, value) == [kind |-> "MapType", Key |-> key, Value |-> value]
ChanType(value) == [kind |-> "ChanType", Value |-> value]
BasicLit(value) == [kind |-> "BasicLit", Value |-> value]
\* an expression formatType has no case for
InterfaceType == [kind |-> "InterfaceType"]

Field(names, type) == [Names |-> names, Type |-> type]
NilFieldList == [isNil |-> TRUE, List |-> <<>>]
FieldList(list) == [isNil |-> FALSE, List |-> list]

FuncDecl(recv, name, params, results) ==
    [kind |-> "FuncDecl", Recv |-> recv, Name |-> name,
     Type |-> [Params |-> params, Results |-> results]]
\* a top-level declaration that is no function (import, const, type, var)
GenDecl == [kind |-> "GenDecl"]

(***************************************************************************)
(* Results of calls.                                                       *)
(***************************************************************************)
Ok(s) == [err |-> "none", s |-> s]
OkBool(b) == [err |-> "none", b |-> b]
Panic(e) == [err |-> e]
Panicked(r) == r.err # "none"

(***************************************************************************)
(* exported's closure isUpper0.                                            *)
(***************************************************************************)
isUpper0(s) ==
    IF Len(s) >= 1 /\ s[1] = "*"
    THEN IF Len(s) >= 2 THEN OkBool(s[2] \in Upper) ELSE Panic("index out of range")
    ELSE IF Len(s) >= 1 THEN OkBool(s[1] \in Upper) ELSE Panic("index out of range")

(***************************************************************************)
(* The renderer.                                                           *)
(***************************************************************************)
RECURSIVE formatType(_)
RECURSIVE formatFields(_)
RECURSIVE formatFuncParams(_)
RECURSIVE formatFuncResults(_)

\* fmt.Sprintf of two rendered operands: the operands are evaluated left to
\* right, and the first panic is the call's.
Sprintf2(pre, a, mid, b) ==
    IF Panicked(a) THEN a
    ELSE IF Panicked(b) THEN b
    ELSE Ok(pre \o a.s \o mid \o b.s)

formatIdent(t) == Ok(t.Name)

formatSelectorExpr(t) ==
    LET x == formatType(t.X)
    IN  IF Panicked(x) THEN x ELSE Ok(x.s \o <<".">> \o t.Sel)

formatStarExpr(t) ==
    LET x == formatType(t.X)
    IN  IF Panicked(x) THEN x ELSE Ok(<<"*">> \o x.s)

formatArrayType(t) ==
    Sprintf2(<<"[">>, formatType(t.Len), <<"]">>, formatType(t.Elt))

formatEllipsis_Keep(t) ==
    LET x == formatType(t.Elt)
    IN  IF Panicked(x) THEN x ELSE Ok(<<".", ".", ".">> \o x.s)

formatEllipsis(t) == formatType(t.Elt)

formatFuncType(t) ==
    Sprintf2(<<"f", "u", "n", "c", "(">>, formatFuncParams(t.Params),
             <<")">>, formatFuncResults(t.Results))

formatMapType(t) ==
    Sprintf2(<<"m", "a", "p", "[">>, formatType(t.Key), <<"]">>, formatType(t.Value))

formatChanType_Render(t) ==
    LET x == formatType(t.Value)
    IN  IF Panicked(x) THEN x ELSE Ok(<<"c", "h", "a", "n", " ">> \o x.s)

formatChanType(t) == Panic("unsupported chan type")

formatBasicLit(t) == Ok(t.Value)

formatType(typ) ==
    CASE typ.kind = "nil" -> Ok(<<>>)
      [] typ.kind = "Ident" -> formatIdent(typ)
      [] typ.kind = "SelectorExpr" -> formatSelectorExpr(typ)
      [] typ.kind = "StarExpr" -> formatStarExpr(typ)
      [] typ.kind = "ArrayType" -> formatArrayType(typ)
      [] typ.kind = "Ellipsis" -> formatEllipsis(typ)
      [] typ.kind = "FuncType" -> formatFuncType(typ)
      [] typ.kind = "MapType" -> formatMapType(typ)
      [] typ.kind = "ChanType" -> formatChanType(typ)
      [] typ.kind = "BasicLit" -> formatBasicLit(typ)
      [] OTHER -> Panic("unsupported type")

\* the inner loop of formatFields, from its j-th name on: s is the string so far
RECURSIVE namesLoop_TrailingComma(_, _, _)
namesLoop_TrailingComma(Names, j, s) ==
    IF j > Len(Names) THEN s
    ELSE namesLoop_TrailingComma(Names, j + 1, s \o Names[j] \o <<",">> \o <<" ">>)

RECURSIVE namesLoop(_, _, _)
namesLoop(Names, j, s) ==
    IF j > Len(Names) THEN s
    ELSE namesLoop(Names, j + 1,
                   s \o Names[j]
                     \o (IF j # Len(Names) THEN <<",">> ELSE <<>>)
                     \o <<" ">>)

\* the outer loop of formatFields, from its i-th field on
RECURSIVE fieldsLoop(_, _, _)
fieldsLoop(List, i, s) ==
    IF i > Len(List) THEN Ok(s)
    ELSE LET s1 == namesLoop(List[i].Names, 1, s)
             t == formatType(List[i].Type)
         IN  IF Panicked(t) THEN t
             ELSE fieldsLoop(List, i + 1,
                             s1 \o t.s \o (IF i # Len(List) THEN <<",", " ">> ELSE <<>>))

formatFields(fields) ==
    IF fields.isNil THEN Panic("nil pointer dereference")
    ELSE fieldsLoop(fields.List, 1, <<>>)

formatFuncParams(fields) == formatFields(fields)

formatFuncResults_AlwaysParens(fields) ==
    IF fields.isNil THEN Ok(<<>>)
    ELSE LET f == formatFields(fields)
         IN  IF Panicked(f) THEN f ELSE Ok(<<" ", "(">> \o f.s \o <<")">>)

formatFuncResults(fields) ==
    IF fields.isNil THEN Ok(<<>>)
    ELSE LET open == IF Len(fields.List) > 1 THEN <<"(">> ELSE <<>>
             f == formatFields(fields)
             close == IF Len(fields.List) > 1 THEN <<")">> ELSE <<>>
         IN  IF Panicked(f) THEN f ELSE Ok(<<" ">> \o open \o f.s \o close)

formatReceiver_NoSpace(field, t) ==
    <<"(">> \o field.Names[1] \o <<" ">> \o t \o <<")">>

\* fmt.Sprintf("(%s %s) ", field.Names[0], formatType(field.Type)), t the rendered type
formatReceiver(field, t) ==
    <<"(">> \o field.Names[1] \o <<" ">> \o t \o <<")", " ">>

formatFuncDecl_FirstReceiver(decl) ==
    LET named == ~decl.Recv.isNil /\ Len(decl.Recv.List) >= 1
                 /\ Len(decl.Recv.List[1].Names) >= 1
        recv == IF named
                THEN LET t == formatType(decl.Recv.List[1].Type)
                     IN  IF Panicked(t) THEN t
                         ELSE Ok(formatReceiver(decl.Recv.List[1], t.s))
                ELSE Ok(<<>>)
        sig == Sprintf2(decl.Name \o <<"(">>, formatFuncParams(decl.Type.Params),
                        <<")">>, formatFuncResults(decl.Type.Results))
    IN  IF Panicked(recv) THEN recv
        ELSE IF Panicked(sig) THEN sig
        ELSE Ok(<<"f", "u", "n", "c", " ">> \o recv.s \o sig.s)

formatFuncDecl(decl) ==
    LET sig == Sprintf2(decl.Name \o <<"(">>, formatFuncParams(decl.Type.Params),
                        <<")">>, formatFuncResults(decl.Type.Results))
    IN  IF decl.Recv.isNil
        THEN IF Panicked(sig) THEN sig ELSE Ok(<<"f", "u", "n", "c", " ">> \o sig.s)
        ELSE IF Len(decl.Recv.List) # 1 THEN Panic("strange receiver")
        ELSE LET field == decl.Recv.List[1]
                 t == formatType(field.Type)
             IN  IF Len(field.Names) = 0 THEN Ok(<<>>)
                 ELSE IF Len(field.Names) # 1 THEN Panic("strange receiver field")
                 ELSE IF Panicked(t) THEN t
                 ELSE IF Panicked(sig) THEN sig
                 ELSE Ok(<<"f", "u", "n", "c", " ">> \o formatReceiver(field, t.s) \o sig.s)

(***************************************************************************)
(* The visibility classifier.                                              *)
(***************************************************************************)
exported_NameOnly(decl) ==
    IF ~decl.Recv.isNil /\ Len(decl.Recv.List) # 1 THEN Panic("strange receiver")
    ELSE isUpper0(decl.Name)

exported(decl) ==
    IF ~decl.Recv.isNil
    THEN IF Len(decl.Recv.List) # 1 THEN Panic("strange receiver")
         ELSE LET t == formatType(decl.Recv.List[1].Type)
                  u == isUpper0(t.s)
              IN  IF Panicked(t) THEN t
                  ELSE IF Panicked(u) THEN u
                  ELSE IF ~u.b THEN OkBool(FALSE)
                  ELSE isUpper0(decl.Name)
    ELSE isUpper0(decl.Name)

(***************************************************************************)
(* The inputs: syntax trees the parser can hand over, within the bounds.   *)
(***************************************************************************)
BaseTypes ==
    {Ident(sX), Ident(sInt), Ident(sString),
     SelectorExpr(Ident(sUnicode), sSpecialCase), InterfaceType}

\* func(a int) (T, error)
FuncToPair(t) ==
    FuncType(FieldList(<<Field(<<ParamNames[1]>>, Ident(sInt))>>),
             FieldList(<<Field(<<>>, t), Field(<<>>, Ident(sError))>>))

\* the type expressions that hold t as their operand
Wrap(t) ==
    {StarExpr(t),
     ArrayType(NilExpr, t),
     ArrayType(BasicLit(sLit3), t),
     MapType(Ident(sString), t),
     MapType(t, Ident(sInt)),
     FuncType(FieldList(<<Field(<<>>, t)>>), NilFieldList),
     ChanType(t)}

\* the type expressions nested at most d deep
RECURSIVE Types(_)
Types(d) ==
    IF d = 0 THEN BaseTypes
    ELSE BaseTypes \cup UNION {Wrap(t) : t \in Types(d - 1)}

\* the type of a parameter: a type expression, the variadic ...T, which the
\* grammar allows nowhere else, or a function type of two results
ParamTypes(d) ==
    IF d = 0 THEN BaseTypes
    ELSE Types(d) \cup UNION {{Ellipsis(t), FuncToPair(t)} : t \in Types(d - 1)}

FieldTypes ==
    {Ident(sString), Ident(sInt), Ident(sError), ChanType(Ident(sInt))}

\* a field's names: the first k of a, b, c, ...
NameLists == {SubSeq(ParamNames, 1, k) : k \in 0..MaxNames}

Fields == {Field(names, t) : names \in NameLists, t \in FieldTypes}

FieldLists(n) == {FieldList(l) : l \in UNION {[1..k -> Fields] : k \in 0..n}}

JoinParams ==
    FieldList(<<Field(<<ParamNames[1]>>, ArrayType(NilExpr, Ident(sString))),
                Field(<<sSep>>, Ident(sString))>>)
ReadParams == FieldList(<<Field(<<<<"p">>>>, ArrayType(NilExpr, Ident(sByte)))>>)
ReadResults == FieldList(<<Field(<<<<"n">>>>, Ident(sInt)), Field(<<sErr>>, Ident(sError))>>)
ReaderRecv == FieldList(<<Field(<<<<"r">>>>, StarExpr(Ident(sReader)))>>)

JoinDecl == FuncDecl(NilFieldList, sJoin, JoinParams, FieldList(<<Field(<<>>, Ident(sString))>>))
SplitDecl ==
    FuncDecl(NilFieldList, ssplit, FieldList(<<Field(<<<<"s">>>>, Ident(sString))>>),
             FieldList(<<Field(<<>>, ArrayType(NilExpr, Ident(sString)))>>))
ReadDecl == FuncDecl(ReaderRecv, sRead, ReadParams, ReadResults)
\* func (Reader) Len() int: a method whose receiver is not named
LenDecl ==
    FuncDecl(FieldList(<<Field(<<>>, Ident(sReader))>>), sLen, FieldList(<<>>),
             FieldList(<<Field(<<>>, Ident(sInt))>>))
\* func Send(c chan int)
SendDecl ==
    FuncDecl(NilFieldList, sSend, FieldList(<<Field(<<<<"c">>>>, ChanType(Ident(sInt)))>>),
             NilFieldList)
\* a receiver list of two fields, which the grammar does not produce
StrangeDecl ==
    FuncDecl(FieldList(<<Field(<<<<"r">>>>, Ident(sReader)), Field(<<<<"s">>>>, Ident(sReader))>>),
             sFoo, FieldList(<<>>), NilFieldList)

RecvTypes ==
    {Ident(sMyType), StarExpr(Ident(sMyType)), Ident(smyType), StarExpr(Ident(smyType)),
     StarExpr(Ident(sReader)), StarExpr(StarExpr(Ident(sMyType))), ChanType(Ident(sInt))}
RecvNameLists == {<<>>, <<<<"r">>>>, <<<<"r">>, <<"s">>>>}
Recvs ==
    {NilFieldList, FieldList(<<>>)}
    \cup {FieldList(<<Field(names, t)>>) : names \in RecvNameLists, t \in RecvTypes}
    \cup {FieldList(<<Field(<<<<"r">>>>, t), Field(<<<<"s">>>>, t)>>) : t \in {Ident(sMyType)}}
DeclNames == {sFoo, sfoo}
DeclResults ==
    {NilFieldList, FieldList(<<Field(<<>>, Ident(sString))>>),
     FieldList(<<Field(<<>>, Ident(sInt)), Field(<<>>, Ident(sError))>>),
     FieldList(<<Field(<<>>, ChanType(Ident(sInt)))>>)}
Decls ==
    {FuncDecl(recv, name, params, results) :
        recv \in Recvs, name \in DeclNames, params \in FieldLists(1), results \in DeclResults}
    \cup {JoinDecl, SplitDecl, ReadDecl, LenDecl, SendDecl, StrangeDecl}

\* what one call is handed
Args ==
    {[kind |-> "type", v |-> t] : t \in ParamTypes(MaxDepth)}
    \cup {[kind |-> "fields", v |-> f] : f \in FieldLists(MaxFields)}
    \cup {[kind |-> "results", v |-> f] : f \in FieldLists(MaxFields) \cup {NilFieldList}}
    \cup {[kind |-> "decl", v |-> d] : d \in Decls}
NoArg == [kind |-> "none"]
NoRet == [fn |-> "none"]

\* the declarations the files of a program are made of: a file holds pointers
\* to its declarations (file.Decls is a []ast.Decl)
DeclAt ==
    [Join |-> JoinDecl, split |-> SplitDecl, Read |-> ReadDecl, Len |-> LenDecl,
     Send |-> SendDecl, Strange |-> StrangeDecl, Gen |-> GenDecl]
FileDecls == DOMAIN DeclAt

RECURSIVE Sum(_)
Sum(lens) == IF lens = <<>> THEN 0 ELSE Head(lens) + Sum(Tail(lens))

\* flat cut into files of the lengths lens
Cut(flat, lens) ==
    [k \in 1..Len(lens) |->
        SubSeq(flat, Sum(SubSeq(lens, 1, k - 1)) + 1, Sum(SubSeq(lens, 1, k)))]

\* the lengths of the files of a program, each file of one declaration or more
FileLengths ==
    {lens \in UNION {[1..k -> 1..MaxDecls] : k \in 0..MaxFiles} : Sum(lens) <= MaxDecls}

(***************************************************************************)
(* The calls, one at a time: arg is what the call is handed, ret what it   *)
(* returns.                                                                *)
(***************************************************************************)
RunIdle ==
    /\ verbose = FALSE /\ prog = <<>> /\ fi = 1 /\ di = 1
    /\ out = <<>> /\ fatal = "none"

InitRender ==
    /\ RunIdle
    /\ pc = "call"
    /\ arg \in Args
    /\ ret = NoRet

Return(fn, val) ==
    /\ pc' = "returned"
    /\ ret' = [fn |-> fn, val |-> val]
    /\ UNCHANGED <<verbose, prog, fi, di, out, fatal, arg>>

CallFormatType ==
    /\ pc = "call" /\ arg.kind = "type"
    /\ Return("formatType", formatType(arg.v))

CallFormatFields ==
    /\ pc = "call" /\ arg.kind = "fields"
    /\ Return("formatFields", formatFields(arg.v))

CallFormatFuncParams ==
    /\ pc = "call" /\ arg.kind = "fields"
    /\ Return("formatFuncParams", formatFuncParams(arg.v))

CallFormatFuncResults ==
    /\ pc = "call" /\ arg.kind = "results"
    /\ Return("formatFuncResults", formatFuncResults(arg.v))

CallFormatFuncDecl ==
    /\ pc = "call" /\ arg.kind = "decl"
    /\ Return("formatFuncDecl", formatFuncDecl(arg.v))

CallExported ==
    /\ pc = "call" /\ arg.kind = "decl"
    /\ Return("exported", exported(arg.v))

NextRender ==
    \/ CallFormatType
    \/ CallFormatFields
    \/ CallFormatFuncParams
    \/ CallFormatFuncResults
    \/ CallFormatFuncDecl
    \/ CallExported

SpecRender == InitRender /\ [][NextRender]_vars

(***************************************************************************)
(* The listing run: printFuncsInProgram over the files of the loaded       *)
(* packages, printFuncsInFile over the declarations of each.  out is what  *)
(* the run has written to standard output so far, line by line.            *)
(***************************************************************************)
Init ==
    /\ verbose \in BOOLEAN
    /\ \E lens \in FileLengths :
          \E flat \in [1..Sum(lens) -> FileDecls] : prog = Cut(flat, lens)
    /\ fi = 1 /\ di = 1
    /\ out = <<>>
    /\ pc = "run"
    /\ fatal = "none"
    /\ arg = NoArg
    /\ ret = NoRet

\* fmt.Println(s): the line s, written to os.Stdout at once (no buffer)
Println(o, s) == Append(o, s)

InFile == pc = "run" /\ fi <= Len(prog) /\ di <= Len(prog[fi])
CurDecl == DeclAt[prog[fi][di]]

\* the declaration is no *ast.FuncDecl, or exported(decl) is false
SkipDecl ==
    /\ InFile
    /\ IF CurDecl.kind = "FuncDecl" THEN exported(CurDecl) = OkBool(FALSE) ELSE TRUE
    /\ di' = di + 1
    /\ UNCHANGED <<verbose, prog, fi, out, pc, fatal, arg, ret>>

PrintName_First ==
    /\ InFile
    /\ CurDecl.kind = "FuncDecl"
    /\ exported(CurDecl) = OkBool(TRUE)
    /\ ~verbose
    /\ out' = <<CurDecl.Name>> \o out
    /\ di' = di + 1
    /\ UNCHANGED <<verbose, prog, fi, pc, fatal, arg, ret>>

PrintName ==
    /\ InFile
    /\ CurDecl.kind = "FuncDecl"
    /\ exported(CurDecl) = OkBool(TRUE)
    /\ ~verbose
    /\ out' = Println(out, CurDecl.Name)
    /\ di' = di + 1
    /\ UNCHANGED <<verbose, prog, fi, pc, fatal, arg, ret>>

PrintSignature ==
    /\ InFile
    /\ CurDecl.kind = "FuncDecl"
    /\ exported(CurDecl) = OkBool(TRUE)
    /\ verbose
    /\ ~Panicked(formatFuncDecl(CurDecl))
    /\ out' = Println(out, formatFuncDecl(CurDecl).s)
    /\ di' = di + 1
    /\ UNCHANGED <<verbose, prog, fi, pc, fatal, arg, ret>>

\* the panic of the call the visit of CurDecl makes, "none" if none panics
PanicOf(decl) ==
    IF decl.kind # "FuncDecl" THEN "none"
    ELSE IF Panicked(exported(decl)) THEN exported(decl).err
    ELSE IF exported(decl).b /\ verbose THEN formatFuncDecl(decl).err
    ELSE "none"

PanicDecl_Recovered ==
    /\ InFile
    /\ PanicOf(CurDecl) # "none"
    /\ di' = di + 1
    /\ UNCHANGED <<verbose, prog, fi, out, pc, fatal, arg, ret>>

\* exported or formatFuncDecl panics: nothing recovers, the process ends
PanicDecl ==
    /\ InFile
    /\ PanicOf(CurDecl) # "none"
    /\ pc' = "fatal"
    /\ fatal' = PanicOf(CurDecl)
    /\ UNCHANGED <<verbose, prog, fi, di, out, arg, ret>>

\* printFuncsInFile returns nil; printFuncsInProgram goes on to the next file
NextFile ==
    /\ pc = "run" /\ fi <= Len(prog) /\ di > Len(prog[fi])
    /\ fi' = fi + 1
    /\ di' = 1
    /\ UNCHANGED <<verbose, prog, out, pc, fatal, arg, ret>>

\* printFuncsInProgram returns nil, main returns
Finish ==
    /\ pc = "run" /\ fi > Len(prog)
    /\ pc' = "done"
    /\ UNCHANGED <<verbose, prog, fi, di, out, fatal, arg, ret>>

Next ==
    \/ SkipDecl
    \/ PrintName
    \/ PrintSignature
    \/ PanicDecl
    \/ NextFile
    \/ Finish

Spec == Init /\ [][Next]_vars

(***************************************************************************)
(* What the specification says, stated on its own terms: the rendering as  *)
(* a structural recursion over strings, the visibility rule, and the       *)
(* shapes the renderer does not support.                                   *)
(***************************************************************************)
StartsUpper(s) == Len(s) > 0 /\ Head(s) \in Upper
StripStar(s) == IF Len(s) > 0 /\ Head(s) = "*" THEN Tail(s) ELSE s

RECURSIVE JoinWith(_, _)
JoinWith(strs, sep) ==
    IF Len(strs) = 0 THEN <<>>
    ELSE IF Len(strs) = 1 THEN strs[1]
    ELSE strs[1] \o sep \o JoinWith(Tail(strs), sep)

\* a channel type, or a shape outside the supported set, occurs in t
RECURSIVE Unsupported(_)
UnsupportedFields(fl) ==
    ~fl.isNil /\ \E i \in 1..Len(fl.List) : Unsupported(fl.List[i].Type)
Unsupported(t) ==
    CASE t.kind \in {"nil", "Ident", "BasicLit"} -> FALSE
      [] t.kind = "SelectorExpr" -> Unsupported(t.X)
      [] t.kind = "StarExpr" -> Unsupported(t.X)
      [] t.kind = "ArrayType" -> Unsupported(t.Len) \/ Unsupported(t.Elt)
      [] t.kind = "Ellipsis" -> Unsupported(t.Elt)
      [] t.kind = "FuncType" -> UnsupportedFields(t.Params) \/ UnsupportedFields(t.Results)
      [] t.kind = "MapType" -> Unsupported(t.Key) \/ Unsupported(t.Value)
      [] OTHER -> TRUE

RECURSIVE RenderType(_)
RenderField(f) ==
    IF Len(f.Names) = 0 THEN RenderType(f.Type)
    ELSE JoinWith(f.Names, <<",", " ">>) \o <<" ">> \o RenderType(f.Type)
RenderFields(fl) ==
    JoinWith([i \in 1..Len(fl.List) |-> RenderField(fl.List[i])], <<",", " ">>)
RenderResults(fl) ==
    IF fl.isNil THEN <<>>
    ELSE IF Len(fl.List) > 1 THEN <<" ", "(">> \o RenderFields(fl) \o <<")">>
    ELSE <<" ">> \o RenderFields(fl)
RenderType(t) ==
    CASE t.kind = "nil" -> <<>>
      [] t.kind = "Ident" -> t.Name
      [] t.kind = "SelectorExpr" -> RenderType(t.X) \o <<".">> \o t.Sel
      [] t.kind = "StarExpr" -> <<"*">> \o RenderType(t.X)
      [] t.kind = "ArrayType" -> <<"[">> \o RenderType(t.Len) \o <<"]">> \o RenderType(t.Elt)
      [] t.kind = "Ellipsis" -> RenderType(t.Elt)
      [] t.kind = "FuncType" ->
            <<"f", "u", "n", "c", "(">> \o RenderFields(t.Params) \o <<")">>
            \o RenderResults(t.Results)
      [] t.kind = "MapType" ->
            <<"m", "a", "p", "[">> \o RenderType(t.Key) \o <<"]">> \o RenderType(t.Value)
      [] t.kind = "BasicLit" -> t.Value

RenderDecl(d) ==
    <<"f", "u", "n", "c", " ">>
    \o (IF d.Recv.isNil THEN <<>>
        ELSE <<"(">> \o d.Recv.List[1].Names[1] \o <<" ">>
             \o RenderType(d.Recv.List[1].Type) \o <<")", " ">>)
    \o d.Name \o <<"(">> \o RenderFields(d.Type.Params) \o <<")">>
    \o RenderResults(d.Type.Results)

IsExported(d) ==
    /\ StartsUpper(d.Name)
    /\ d.Recv.isNil \/ StartsUpper(StripStar(RenderType(d.Recv.List[1].Type)))

NoReceiver(d) == d.Recv.isNil
OneReceiver(d) == ~d.Recv.isNil /\ Len(d.Recv.List) = 1
NamedReceiver(d) == OneReceiver(d) /\ Len(d.Recv.List[1].Names) = 1
UnnamedReceiver(d) == OneReceiver(d) /\ Len(d.Recv.List[1].Names) = 0
UnsupportedSignature(d) ==
    UnsupportedFields(d.Type.Params) \/ UnsupportedFields(d.Type.Results)
UnsupportedPanic(r) == r.err \in {"unsupported chan type", "unsupported type"}

Returned(fn) == pc = "returned" /\ ret.fn = fn

\* C1: for a declaration with one receiver field or none, exported is true iff
\* the name starts with an uppercase letter and, with a receiver, the rendered
\* receiver type does too after one leading "*" is stripped.
C1_ExportedIffUpper ==
    (Returned("exported") /\ (NoReceiver(arg.v) \/ OneReceiver(arg.v))) =>
        LET d == arg.v
            renders == NoReceiver(d) \/ ~Unsupported(d.Recv.List[1].Type)
        IN  /\ renders => ret.val = OkBool(IsExported(d))
            /\ ~renders => ret.val # OkBool(TRUE)

\* receiver *myType, method Foo: not exported
C1_Witness ==
    /\ Returned("exported")
    /\ arg.v.Name = sFoo
    /\ arg.v.Recv = FieldList(<<Field(<<<<"r">>>>, StarExpr(Ident(smyType)))>>)
    /\ ret.val = OkBool(FALSE)

\* C4: a declaration with no receiver, or with one receiver field of one name,
\* renders as "func " + ["(" + name + " " + type + ") "] + name + "(" + params
\* + ")" + results; Join renders as in the README, and split is not exported.
C4_DeclRendering ==
    /\ (Returned("formatFuncDecl") /\ (NoReceiver(arg.v) \/ NamedReceiver(arg.v))
            /\ ~UnsupportedSignature(arg.v)
            /\ (NamedReceiver(arg.v) => ~Unsupported(arg.v.Recv.List[1].Type))) =>
          ret.val = Ok(RenderDecl(arg.v))
    /\ (Returned("formatFuncDecl") /\ arg.v = JoinDecl) =>
          ret.val = Ok(<<"f", "u", "n", "c", " ", "J", "o", "i", "n", "(", "a", " ", "[", "]",
                  "s", "t", "r", "i", "n", "g", ",", " ", "s", "e", "p", " ", "s", "t",
                  "r", "i", "n", "g", ")", " ", "s", "t", "r", "i", "n", "g">>)
    /\ (Returned("exported") /\ arg.v = SplitDecl) => ret.val = OkBool(FALSE)

C4_Witness ==
    /\ Returned("formatFuncDecl")
    /\ arg.v = ReadDecl
    /\ ret.val = Ok(<<"f", "u", "n", "c", " ", "(", "r", " ", "*", "R", "e", "a", "d", "e",
                 "r", ")", " ", "R", "e", "a", "d", "(", "p", " ", "[", "]", "b", "y",
                 "t", "e", ")", " ", "(", "n", " ", "i", "n", "t", ",", " ", "e", "r",
                 "r", " ", "e", "r", "r", "o", "r", ")">>)

\* C5: the results render as "" when the declaration has no result list, else
\* as " " + fields, in parentheses iff there is more than one field.
C5_ResultRendering ==
    Returned("formatFuncResults") =>
        LET f == arg.v
        IN  /\ f.isNil => ret.val = Ok(<<>>)
            /\ (~f.isNil /\ ~UnsupportedFields(f)) =>
                  ret.val = Ok(<<" ">>
                               \o (IF Len(f.List) > 1 THEN <<"(">> ELSE <<>>)
                               \o RenderFields(f)
                               \o (IF Len(f.List) > 1 THEN <<")">> ELSE <<>>))
            /\ f = FieldList(<<Field(<<>>, Ident(sInt)), Field(<<>>, Ident(sError))>>) =>
                  ret.val = Ok(<<" ", "(", "i", "n", "t", ",", " ", "e", "r", "r", "o",
                                 "r", ")">>)
            /\ f = FieldList(<<Field(<<>>, Ident(sString))>>) =>
                  ret.val = Ok(<<" ", "s", "t", "r", "i", "n", "g">>)

C5_Witness ==
    /\ Returned("formatFuncResults")
    /\ arg.v = FieldList(<<Field(<<>>, Ident(sInt)), Field(<<>>, Ident(sError))>>)
    /\ ret.val = Ok(<<" ", "(", "i", "n", "t", ",", " ", "e", "r", "r", "o",
                                 "r", ")">>)

\* C6: a field list renders its fields in order, joined by ", "; a field is its
\* names joined by ", ", a space and its type once; without names, its type.
C6_FieldsRendering ==
    ((Returned("formatFields") \/ Returned("formatFuncParams"))
            /\ ~UnsupportedFields(arg.v)) =>
        /\ ret.val = Ok(RenderFields(arg.v))
        /\ arg.v = FieldList(<<Field(<<<<"a">>, <<"b">>>>, Ident(sString))>>) =>
              ret.val = Ok(<<"a", ",", " ", "b", " ", "s", "t", "r", "i", "n", "g">>)
        /\ arg.v = FieldList(<<Field(<<>>, Ident(sInt)), Field(<<>>, Ident(sError))>>) =>
              ret.val = Ok(<<"i", "n", "t", ",", " ", "e", "r", "r", "o", "r">>)

C6_Witness ==
    /\ Returned("formatFields")
    /\ arg.v = FieldList(<<Field(<<<<"a">>, <<"b">>>>, Ident(sString))>>)
    /\ ret.val = Ok(<<"a", ",", " ", "b", " ", "s", "t", "r", "i", "n", "g">>)

\* C7: formatType is the structural recursion of the table; the ellipsis of a
\* variadic parameter is dropped.
C7_TypeRendering ==
    (Returned("formatType") /\ ~Unsupported(arg.v)) =>
        /\ ret.val = Ok(RenderType(arg.v))
        /\ arg.v = ArrayType(NilExpr, StarExpr(Ident(sX))) =>
              ret.val = Ok(<<"[", "]", "*", "X">>)
        /\ arg.v = StarExpr(MapType(Ident(sString), ArrayType(NilExpr, Ident(sInt)))) =>
              ret.val = Ok(<<"*", "m", "a", "p", "[", "s", "t", "r", "i", "n", "g",
                             "]", "[", "]", "i", "n", "t">>)
        /\ arg.v = SelectorExpr(Ident(sUnicode), sSpecialCase) =>
              ret.val = Ok(<<"u", "n", "i", "c", "o", "d", "e", ".", "S", "p", "e",
                             "c", "i", "a", "l", "C", "a", "s", "e">>)
        /\ arg.v = Ellipsis(Ident(sInt)) => ret.val = Ok(sInt)

C7_Witness ==
    /\ Returned("formatType")
    /\ arg.v = StarExpr(MapType(Ident(sString), ArrayType(NilExpr, Ident(sInt))))
    /\ ret.val = Ok(<<"*", "m", "a", "p", "[", "s", "t", "r", "i", "n", "g",
                             "]", "[", "]", "i", "n", "t">>)

\* C8: a channel type, or a shape outside the supported set, anywhere in a
\* type that is rendered makes the rendering panic with an unsupported-type
\* error instead of returning a string.
C8_UnsupportedAborts ==
    /\ (Returned("formatType") /\ Unsupported(arg.v)) => UnsupportedPanic(ret.val)
    /\ ((Returned("formatFields") \/ Returned("formatFuncParams")
            \/ Returned("formatFuncResults")) /\ UnsupportedFields(arg.v)) =>
          UnsupportedPanic(ret.val)
    /\ (Returned("formatFuncDecl") /\ NoReceiver(arg.v) /\ UnsupportedSignature(arg.v)) =>
          UnsupportedPanic(ret.val)
    /\ (Returned("formatFuncDecl") /\ NamedReceiver(arg.v)
            /\ (Unsupported(arg.v.Recv.List[1].Type) \/ UnsupportedSignature(arg.v))) =>
          UnsupportedPanic(ret.val)
    /\ (Returned("exported") /\ OneReceiver(arg.v) /\ Unsupported(arg.v.Recv.List[1].Type)) =>
          UnsupportedPanic(ret.val)

\* func Send(c chan int)
C8_Witness ==
    /\ Returned("formatFuncDecl")
    /\ arg.v = SendDecl
    /\ ret.val = Panic("unsupported chan type")

\* C9: with a receiver list that is present and does not hold exactly one
\* field, exported and formatFuncDecl both panic ("strange receiver").
C9_StrangeReceiverAborts ==
    ((Returned("exported") \/ Returned("formatFuncDecl"))
            /\ ~NoReceiver(arg.v) /\ ~OneReceiver(arg.v)) =>
        ret.val = Panic("strange receiver")

C9_Witness ==
    /\ Returned("formatFuncDecl")
    /\ arg.v = StrangeDecl
    /\ ret.val = Panic("strange receiver")

C9_WitnessNoField ==
    /\ Returned("exported")
    /\ arg.v.Recv = FieldList(<<>>)
    /\ ret.val = Panic("strange receiver")

(***************************************************************************)
(* The run.                                                                *)
(***************************************************************************)
\* the declarations of the first k files, in order
RECURSIVE FilesUpTo(_)
FilesUpTo(k) == IF k = 0 THEN <<>> ELSE FilesUpTo(k - 1) \o prog[k]

\* the declarations the run has gone past
Visited ==
    IF fi > Len(prog) THEN FilesUpTo(Len(prog))
    ELSE FilesUpTo(fi - 1) \o SubSeq(prog[fi], 1, di - 1)

IsFunc(p) == DeclAt[p].kind = "FuncDecl"

\* exported panics on the declaration
ClassifyPanics(d) ==
    IF NoReceiver(d) THEN FALSE
    ELSE IF ~OneReceiver(d) THEN TRUE
    ELSE Unsupported(d.Recv.List[1].Type)

\* formatFuncDecl panics on a declaration exported has passed
RenderPanics(d) ==
    IF UnnamedReceiver(d) THEN FALSE
    ELSE IF OneReceiver(d) /\ ~NamedReceiver(d) THEN TRUE
    ELSE UnsupportedSignature(d)

\* the declaration makes the run panic
Fatal(d) ==
    /\ d.kind = "FuncDecl"
    /\ IF ClassifyPanics(d) THEN TRUE
       ELSE verbose /\ IsExported(d) /\ RenderPanics(d)

\* the line an exported declaration yields
LineOf(d) ==
    IF ~verbose THEN d.Name
    ELSE IF UnnamedReceiver(d) THEN <<>>
    ELSE RenderDecl(d)

RECURSIVE LinesOf(_)
LinesOf(ps) ==
    IF Len(ps) = 0 THEN <<>>
    ELSE LET d == DeclAt[ps[Len(ps)]]
             before == LinesOf(SubSeq(ps, 1, Len(ps) - 1))
         IN  IF d.kind = "FuncDecl" /\ IsExported(d) THEN Append(before, LineOf(d))
             ELSE before

\* C2: the verbose listing holds one signature per exported declaration and no
\* line, not even an empty one, for a declaration that renders to "".
C2_EmptyRenderingSkipped ==
    verbose => out = SelectSeq(LinesOf(Visited), LAMBDA l : l # <<>>)

\* C3: without -verbose, the lines are the bare names of the exported functions
\* and methods, in the order of the declarations.
C3_NamesInSourceOrder ==
    ~verbose =>
        /\ out = LinesOf(Visited)
        /\ \A i \in 1..Len(out) :
              \E p \in FileDecls : IsFunc(p) /\ out[i] = DeclAt[p].Name
        /\ pc = "done" => Visited = FilesUpTo(Len(prog))

C3_Witness ==
    /\ ~verbose
    /\ pc = "done"
    /\ prog = <<<<"Join", "split">>, <<"Read">>>>
    /\ out = <<sJoin, sRead>>

\* C10, as the specification has it: a run completes or aborts at the first
\* fatal declaration, and an aborted run has emitted no line.
C10_NoPartialListing ==
    /\ pc = "done" => Visited = FilesUpTo(Len(prog))
    /\ pc = "fatal" => out = <<>>

\* C10, amended: a run stops only by completing, every declaration gone past,
\* or by panicking at the first fatal declaration (it never goes past one); a
\* run that has stopped takes no further step, so nothing is processed or
\* printed after that declaration, and the lines of the declarations before it
\* stay printed.
C10_AbortsAtFirstFatal ==
    /\ Len(Visited) > 0 => ~Fatal(DeclAt[Visited[Len(Visited)]])
    /\ out = LinesOf(Visited)
    /\ pc = "run" <=> ENABLED Next
    /\ pc = "done" => Visited = FilesUpTo(Len(prog)) /\ fatal = "none"
    /\ pc = "fatal" =>
          fi <= Len(prog) /\ di <= Len(prog[fi]) /\ Fatal(CurDecl) /\ fatal # "none"

\* the steps files k, k+1, ... take: one a declaration, one to leave the file
RECURSIVE StepsFrom(_)
StepsFrom(k) == IF k > Len(prog) THEN 0 ELSE Len(prog[k]) + 1 + StepsFrom(k + 1)

\* what is left of the run: the visits and file ends to come, and the return
Remaining ==
    IF pc # "run" THEN 0
    ELSE IF fi > Len(prog) THEN 1
    ELSE 1 + StepsFrom(fi) - (di - 1)

\* C10, amended, with the progress of the run: every step brings it nearer
\* to its end, so a run that is not stuck ends.
C10_RunEnds == []C10_AbortsAtFirstFatal /\ [][Remaining' < Remaining]_vars

\* -verbose: Join is printed, then func Send(c chan int) ends the run before Read
C10_Witness ==
    /\ verbose
    /\ pc = "fatal"
    /\ fatal = "unsupported chan type"
    /\ prog = <<<<"Join", "Send", "Read">>>>
    /\ di = 2
    /\ out = <<<<"f", "u", "n", "c", " ", "J", "o", "i", "n", "(", "a", " ", "[", "]",
              "s", "t", "r", "i", "n", "g", ",", " ", "s", "e", "p", " ", "s", "t", "r",
              "i", "n", "g", ")", " ", "s", "t", "r", "i", "n", "g">>>>

====
